---- MODULE Spec2Model ----
(***************************************************************************)
(* Verification model of storj/benchmark, cmd/metabase-benchmark:          *)
(*   - the Measurement / Result store            (measurement.go)          *)
(*   - the nearest-rank percentile and the statistics of a Result          *)
(*   - the output loop of main and the renderers                           *)
(*   - the benchmark driver Run / Upload / ... (benchmark.go)              *)
(* Each part has its own specification over its own variables; the         *)
(* variables of the other parts stay at their idle values.                 *)
(***************************************************************************)
EXTENDS Integers, Sequences, FiniteSets, TLC

VARIABLES
    \* ---- Measurement store (SpecStore)
    mResults,   \* Measurement.Results: sequence of [Name, Durations]
    loaded,     \* the Results the measurement was decoded with (<<>> when created empty)
    calls,      \* history of the mutating calls made: [op, name, d]
    op,         \* the last call made
    ret         \* what the last Result / ResultByName call returned: [name, idx], idx 0 = nil

VARIABLES
    \* ---- Statistics of one sample sequence (SpecStats)
    samples,    \* the durations handed to the engine, in nanoseconds
    pq,         \* the last percentile(sorted, p) evaluated: [q, res]
    hist        \* the Histogram computed from samples

VARIABLES
    \* ---- main: loaded or measured result sets and the output loop (SpecMain)
    results,    \* []BenchmarkResult: sequence of [Name, Measurements]
    outputs,    \* the output requests: sequence of [Type, File]
    oi,         \* position of the output loop: the next request (1-based)
    stdout,     \* what has been written to os.Stdout, a sequence of chunks
    files,      \* the named files: Absent or the sequence of chunks they hold
    logs,       \* the messages logged with log.Error
    processed,  \* history: one entry per request handled, in handling order
    stoppedAt   \* 0, or the request during which the process died

VARIABLES
    \* ---- the benchmark driver: main, Benchmark.Run and the benchmarks (SpecRun)
    phase,        \* the benchmark Run is in: "upload", "iterate", "list", "download",
                  \* "delete"; "returned" / "failed" once Run has returned
    si,           \* index into Scenarios() of the scenario being run
    mpc,          \* position of the routine that runs the benchmark
    mrec,         \* name of the Result it is recording under, inside Record
    mnext,        \* where it continues after Record
    ki,           \* the loop counter k, or the index of the object being visited
    pj,           \* the loop counter p over the parts
    sj,           \* the loop counter i over the segments of a part
    workers,      \* the errgroup goroutines of the object being uploaded, by part
    cur,          \* measurement.Results of the benchmark being run
    objects,      \* b.Objects, by scenario index
    measurements, \* the measurements Run has collected
    started,      \* history: the benchmark calls Run has made: [phase, si]
    failedAt,     \* the benchmark call that returned an error
    exit,         \* "none"; "fatal" after log.Fatal; "outputs" at the output loop
    rendered,     \* the measurements handed to the output loop
    overtime      \* time.Since(start) > b.MaxDuration in the benchmark being run

VARIABLES
    \* ---- one renderer applied to given runs (SpecRender)
    rin,          \* the runs handed to the renderer: sequence of [Name, Measurements]
    rmem,         \* the same runs as they are in memory after the call
    rop,          \* the renderer called: "table", "std" or "plot"; "none" before
    rout          \* what the renderer produced

storeVars == <<mResults, loaded, calls, op, ret>>
statsVars == <<samples, pq, hist>>
mainVars == <<results, outputs, oi, stdout, files, logs, processed, stoppedAt>>
runVars == <<phase, si, mpc, mrec, mnext, ki, pj, sj, workers, cur, objects,
             measurements, started, failedAt, exit, rendered, overtime>>
renderVars == <<rin, rmem, rop, rout>>
vars == <<storeVars, statsVars, mainVars, runVars, renderVars>>

\* what each specification leaves alone
storeFrame == <<statsVars, mainVars, runVars, renderVars>>
statsFrame == <<storeVars, mainVars, runVars, renderVars>>
mainFrame == <<storeVars, statsVars, runVars, renderVars>>
runFrame == <<storeVars, statsVars, mainVars, renderVars>>
renderFrame == <<storeVars, statsVars, mainVars, runVars>>

----------------------------------------------------------------------------
(* Generic helpers *)

Range(s) == {s[i] : i \in 1..Len(s)}

BoundedSeq(S, n) == UNION {[1..k -> S] : k \in 0..n}

Min(a, b) == IF a < b THEN a ELSE b

MainIdle ==
    /\ results = <<>> /\ outputs = <<>> /\ oi = 0
    /\ stdout = <<>> /\ files = <<>> /\ logs = <<>>
    /\ processed = <<>> /\ stoppedAt = 0

RenderIdle == rin = <<>> /\ rmem = <<>> /\ rop = "idle" /\ rout = <<>>

NoFailure == [phase |-> "", si |-> 0]

RunIdle ==
    /\ phase = "idle" /\ si = 0 /\ mpc = "" /\ mrec = "" /\ mnext = ""
    /\ ki = 0 /\ pj = 0 /\ sj = 0 /\ workers = <<>> /\ cur = <<>>
    /\ objects = <<>> /\ measurements = <<>> /\ started = <<>>
    /\ failedAt = NoFailure /\ exit = "none" /\ rendered = <<>>
    /\ overtime = FALSE

----------------------------------------------------------------------------
(* Percentiles and statistics *)

MaxSamples == 5
MaxSample == 5

\* quantiles as exact fractions <<numerator, denominator>>: 0, 0.25, 0.5,
\* 0.75, 0.9, 0.98, 0.99 and 1
Quantiles ==
    {<<0, 1>>, <<1, 4>>, <<1, 2>>, <<3, 4>>, <<9, 10>>, <<49, 50>>,
     <<99, 100>>, <<1, 1>>}

Panic == [ok |-> FALSE, v |-> 0]
Value(v) == [ok |-> TRUE, v |-> v]

\* math.Ceil(p * float64(n)) for p = num/den
Ceil(num, den) == (num + den - 1) \div den

\* a plausible bug: the rank is rounded down
percentileFloor(sorted, p) ==
    LET n == Len(sorted)
        k0 == (p[1] * n) \div p[2]
        k == IF k0 >= n THEN n - 1 ELSE k0
    IN IF k < 0 \/ k >= n THEN Panic ELSE Value(sorted[k + 1])

\* percentile(sorted, p): sorted[k] with k = ceil(p*n) clamped to n-1; an
\* index outside 0..n-1 panics (the sequences here are 1-based)
percentile(sorted, p) ==
    LET n == Len(sorted)
        k0 == Ceil(p[1] * n, p[2])
        k == IF k0 >= n THEN n - 1 ELSE k0
    IN IF k < 0 \/ k >= n THEN Panic ELSE Value(sorted[k + 1])

RECURSIVE Insert(_, _)
Insert(s, x) ==
    IF s = <<>> THEN <<x>>
    ELSE IF x >= s[Len(s)] THEN Append(s, x)
    ELSE Append(Insert(SubSeq(s, 1, Len(s) - 1), x), s[Len(s)])

RECURSIVE SortAsc(_)
SortAsc(s) ==
    IF s = <<>> THEN <<>>
    ELSE Insert(SortAsc(SubSeq(s, 1, Len(s) - 1)), s[Len(s)])

\* a plausible bug: the samples are used in recording order
SortMissing(s) == s

\* sort.Float64s applied to a copy of the samples
SortFloat64s(s) == SortAsc(s)

RECURSIVE Sum(_)
Sum(s) == IF s = <<>> THEN 0 ELSE s[Len(s)] + Sum(SubSeq(s, 1, Len(s) - 1))

\* the Histogram of a Result's durations: average (as the fraction sum/n),
\* maximum and the nearest-rank percentiles over a sorted copy
NewDurationHistogram(ds) ==
    LET sorted == SortFloat64s(ds) IN
    IF ds = <<>>
    THEN [n |-> 0, Sum |-> 0, Maximum |-> 0,
          P0 |-> 0, P50 |-> 0, P90 |-> 0, P99 |-> 0]
    ELSE
    [n       |-> Len(ds),
     Sum     |-> Sum(sorted),
     Maximum |-> sorted[Len(sorted)],
     P0      |-> percentile(sorted, <<0, 1>>).v,
     P50     |-> percentile(sorted, <<1, 2>>).v,
     P90     |-> percentile(sorted, <<9, 10>>).v,
     P99     |-> percentile(sorted, <<99, 100>>).v]

IsSorted(s) == \A i \in 1..(Len(s) - 1) : s[i] <= s[i + 1]

SampleSeqs == BoundedSeq(0..MaxSample, MaxSamples) \ {<<>>}

NoPq == [q |-> <<0, 1>>, res |-> Panic]
NoHist == [n |-> -1]

StatsIdle == samples = <<>> /\ pq = NoPq /\ hist = NoHist

StatsBegin ==
    /\ samples \in SampleSeqs
    /\ pq = NoPq
    /\ hist = NoHist

\* percentile(sorted, q) on an ascending array
ApplyPercentile(q) ==
    /\ IsSorted(samples)
    /\ pq' = [q |-> q, res |-> percentile(samples, q)]
    /\ UNCHANGED <<samples, hist>>

\* the statistics of a Result with these durations
ComputeStats ==
    /\ hist = NoHist
    /\ hist' = NewDurationHistogram(samples)
    /\ UNCHANGED <<samples, pq>>

----------------------------------------------------------------------------
(* Measurement store *)

MaxCalls == 4
MaxDur == 1

Names == {"Begin Object", "Commit Object"}
QueryNames == Names \cup {"X"}
Durs == 0..MaxDur

NewResult(name) == [Name |-> name, Durations |-> <<>>]

RECURSIVE FindResult(_, _, _)
\* the loop of Measurement.Result: index of the first x with x.Name = name, 0 if none
FindResult(rs, name, i) ==
    IF i > Len(rs) THEN 0
    ELSE IF rs[i].Name = name THEN i
    ELSE FindResult(rs, name, i + 1)

\* a plausible bug: no lookup, every call appends a new Result
ResultAlwaysAppends(rs, name) ==
    [rs |-> Append(rs, NewResult(name)), idx |-> Len(rs) + 1]

\* Measurement.Result: finds or creates; gives the Results afterwards and the
\* position of the Result returned
Result(rs, name) ==
    LET i == FindResult(rs, name, 1) IN
    IF i # 0 THEN [rs |-> rs, idx |-> i]
    ELSE [rs |-> Append(rs, NewResult(name)), idx |-> Len(rs) + 1]

\* a plausible bug: a sample already present is not stored again
RecordDedups(rs, name, d) ==
    LET r == Result(rs, name) IN
    IF d \in Range(r.rs[r.idx].Durations) THEN r.rs
    ELSE [r.rs EXCEPT ![r.idx].Durations = Append(@, d)]

\* Measurement.Record
Record(rs, name, d) ==
    LET r == Result(rs, name) IN
    [r.rs EXCEPT ![r.idx].Durations = Append(@, d)]

RECURSIVE ScanByName(_, _, _)
ScanByName(rs, name, i) ==
    IF i > Len(rs) THEN 0
    ELSE IF rs[i].Name = name THEN i
    ELSE ScanByName(rs, name, i + 1)

\* a plausible bug: the lookup creates the entry, as Result does
ResultByNameCreates(rs, name) == Result(rs, name)

\* Measurement.ResultByName: first exact match or nil (0); the measurement is
\* only read
ResultByName(rs, name) == [rs |-> rs, idx |-> ScanByName(rs, name, 1)]

\* Results a measurement decoded from JSON may carry: names may repeat and
\* Durations may be empty
LoadedDurations == {<<>>, <<0>>}
LoadedResults ==
    BoundedSeq([Name : Names, Durations : LoadedDurations], 2) \ {<<>>}

NoRet == [name |-> "", idx |-> 0]

StoreIdle ==
    /\ mResults = <<>> /\ loaded = <<>> /\ calls = <<>>
    /\ op = "idle" /\ ret = NoRet

StoreBegin ==
    /\ \/ loaded = <<>>
       \/ loaded \in LoadedResults
    /\ mResults = loaded
    /\ calls = <<>>
    /\ op = "new"
    /\ ret = NoRet

StoreInit == StoreBegin /\ StatsIdle /\ MainIdle /\ RunIdle /\ RenderIdle

\* measurement.Record(name, d): made by the driver on the measurement it created
RecordCall(name, d) ==
    /\ loaded = <<>>
    /\ Len(calls) < MaxCalls
    /\ mResults' = Record(mResults, name, d)
    /\ calls' = Append(calls, [op |-> "Record", name |-> name, d |-> d])
    /\ op' = "Record"
    /\ UNCHANGED <<loaded, ret>>

\* measurement.Result(name)
ResultCall(name) ==
    /\ loaded = <<>>
    /\ Len(calls) < MaxCalls
    /\ LET r == Result(mResults, name) IN
        /\ mResults' = r.rs
        /\ ret' = [name |-> name, idx |-> r.idx]
    /\ calls' = Append(calls, [op |-> "Result", name |-> name, d |-> 0])
    /\ op' = "Result"
    /\ UNCHANGED loaded

\* measurement.ResultByName(name)
ResultByNameCall(name) ==
    /\ LET r == ResultByName(mResults, name) IN
        /\ mResults' = r.rs
        /\ ret' = [name |-> name, idx |-> r.idx]
    /\ op' = "ResultByName"
    /\ UNCHANGED <<loaded, calls>>

StoreNext ==
    \/ \E n \in Names, d \in Durs : RecordCall(n, d) /\ UNCHANGED storeFrame
    \/ \E n \in Names : ResultCall(n) /\ UNCHANGED storeFrame
    \/ \E n \in QueryNames : ResultByNameCall(n) /\ UNCHANGED storeFrame

SpecStore == StoreInit /\ [][StoreNext]_vars

----------------------------------------------------------------------------
(* Claims on the Measurement store *)

\* the durations passed to Record under name n, in call order
RecordedUnder(cs, n) ==
    LET sel == SelectSeq(cs, LAMBDA c : c.op = "Record" /\ c.name = n)
    IN [i \in 1..Len(sel) |-> sel[i].d]

\* C1: on a measurement created empty, every Result holds exactly the
\* durations recorded under its name, in call order (duplicates and zero
\* kept), and every name recorded under has a Result.
C1_RecordKeepsEverySample ==
    loaded = <<>> =>
        /\ \A i \in 1..Len(mResults) :
              mResults[i].Durations = RecordedUnder(calls, mResults[i].Name)
        /\ \A n \in Names :
              RecordedUnder(calls, n) # <<>> =>
                  \E i \in 1..Len(mResults) : mResults[i].Name = n

C1_Witness ==
    /\ loaded = <<>>
    /\ Len(calls) = 4
    /\ calls[1] = [op |-> "Record", name |-> "Begin Object", d |-> 1]
    /\ calls[2] = [op |-> "Record", name |-> "Commit Object", d |-> 0]
    /\ calls[3] = [op |-> "Record", name |-> "Begin Object", d |-> 1]
    /\ calls[4] = [op |-> "Record", name |-> "Begin Object", d |-> 0]
    /\ mResults[1].Durations = <<1, 1, 0>>

FirstCall(cs, n) ==
    CHOOSE k \in 1..Len(cs) :
        cs[k].name = n /\ \A l \in 1..(k - 1) : cs[l].name # n

\* C2: the names of Measurement.Results are the distinct names passed to
\* Result and Record, each once, in order of first occurrence.
C2_NamesInFirstSeenOrder ==
    loaded = <<>> =>
        /\ \A i, j \in 1..Len(mResults) :
              i # j => mResults[i].Name # mResults[j].Name
        /\ {mResults[i].Name : i \in 1..Len(mResults)}
              = {calls[k].name : k \in 1..Len(calls)}
        /\ \A i, j \in 1..Len(mResults) :
              i < j => FirstCall(calls, mResults[i].Name)
                          < FirstCall(calls, mResults[j].Name)

C2_Witness ==
    /\ loaded = <<>>
    /\ Len(calls) = 4
    /\ calls[1].op = "Result" /\ calls[1].name = "Commit Object"
    /\ calls[2].op = "Record" /\ calls[2].name = "Begin Object"
    /\ calls[3].op = "Record" /\ calls[3].name = "Commit Object"
    /\ calls[4].op = "Result" /\ calls[4].name = "Begin Object"
    /\ Len(mResults) = 2

\* C3: ResultByName leaves Measurement.Results as it was; it returns nil when
\* no Result has exactly that name and otherwise the first Result with it.
C3_ResultByNameOnlyReads ==
    [][op' = "ResultByName" =>
          /\ mResults' = mResults
          /\ IF \E i \in 1..Len(mResults) : mResults[i].Name = ret'.name
             THEN /\ ret'.idx \in 1..Len(mResults)
                  /\ mResults[ret'.idx].Name = ret'.name
                  /\ \A l \in 1..(ret'.idx - 1) : mResults[l].Name # ret'.name
             ELSE ret'.idx = 0]_vars

C3_Witness ==
    /\ op = "ResultByName"
    /\ mResults # <<>>
    /\ ret.name = "X"
    /\ ret.idx = 0

----------------------------------------------------------------------------
(* Specification of the statistics *)

StatsInit == StatsBegin /\ StoreIdle /\ MainIdle /\ RunIdle /\ RenderIdle

StatsNext ==
    \/ \E q \in Quantiles : ApplyPercentile(q) /\ UNCHANGED statsFrame
    \/ ComputeStats /\ UNCHANGED statsFrame

SpecStats == StatsInit /\ [][StatsNext]_vars

\* C4: nearest rank: on a non-empty ascending array of length n, percentile
\* q returns the element at index min(ceil(q*n), n-1) (0-based), an index in
\* 0..n-1; q = 0 gives the minimum; on [1,2,3,4,5] P50 = 4 and P90 = 5.
C4_NearestRank ==
    pq # NoPq =>
        LET n == Len(samples)
            num == pq.q[1] * n
            den == pq.q[2]
            c == CHOOSE x \in 0..n : x * den >= num /\ (x - 1) * den < num
            k == Min(c, n - 1)
        IN /\ pq.res.ok
           /\ k \in 0..(n - 1)
           /\ pq.res.v = samples[k + 1]
           /\ pq.q = <<0, 1>> => \A i \in 1..n : pq.res.v <= samples[i]
           /\ samples = <<1, 2, 3, 4, 5>> =>
                 /\ pq.q = <<1, 2>> => pq.res.v = 4
                 /\ pq.q = <<9, 10>> => pq.res.v = 5

C4_Witness ==
    /\ samples = <<1, 2, 3, 4, 5>>
    /\ pq.q = <<1, 2>>
    /\ pq.res = Value(4)

\* C5: for every non-empty sequence of non-negative durations the statistics
\* satisfy P0 <= P50 <= P90 <= P99 <= maximum, the maximum is the largest
\* sample, and the average sum/n lies between the smallest and the largest.
C5_StatsOrdered ==
    hist # NoHist =>
        LET S == Range(samples)
            lo == CHOOSE x \in S : \A y \in S : x <= y
            hi == CHOOSE x \in S : \A y \in S : y <= x
        IN /\ hist.P0 <= hist.P50
           /\ hist.P50 <= hist.P90
           /\ hist.P90 <= hist.P99
           /\ hist.P99 <= hist.Maximum
           /\ hist.Maximum = hi
           /\ hist.P0 = lo
           /\ lo * hist.n <= hist.Sum
           /\ hist.Sum <= hi * hist.n

C5_Witness ==
    /\ samples = <<5, 1, 4, 1, 3>>
    /\ hist # NoHist
    /\ hist.P0 = 1 /\ hist.P50 = 4 /\ hist.P90 = 5 /\ hist.Sum = 14

----------------------------------------------------------------------------
(* Renderers *)

Millisecond == 1000000

Scenario(parts, segments) == [Parts |-> parts, Segments |-> segments]

\* plot.DurationTo(durations, unit): float64(d)/float64(unit); a value is
\* kept as its numerator over unit, so the order of values is that of d
DurationTo(ds, unit) == [i \in 1..Len(ds) |-> ds[i]]

\* the initial yAxis.Max of a section, 0.1 ms, as a numerator over Millisecond
InitialAxisMax == Millisecond \div 10

\* a plausible bug: yAxis.Max = percentile(millis, 0.98)
maxIsLast(a, b) == b

\* max(vs...) on two values
max(a, b) == IF b > a THEN b ELSE a

includeString(xs, v) == IF v \in Range(xs) THEN xs ELSE Append(xs, v)

\* a plausible bug: the value is appended without looking for it
includeIntAlways(xs, v) == Append(xs, v)

includeInt(xs, v) == IF v \in Range(xs) THEN xs ELSE Append(xs, v)

RECURSIVE reverseLoop(_, _)
\* the loop of reverseStrings at 0-based index i, counting down
reverseLoop(xs, i) ==
    IF i < 0 THEN xs
    ELSE LET k == Len(xs) - 1 - i
         IN reverseLoop([xs EXCEPT ![i + 1] = xs[k + 1], ![k + 1] = xs[i + 1]],
                        i - 1)

\* a plausible bug: the list is left in scan order
reverseStringsForgotten(xs) == xs

reverseStrings(xs) == reverseLoop(xs, Len(xs) \div 2 - 1)

\* rxSpace.ReplaceAllString(name, ""), on the names used here
StripSpace(name) ==
    CASE name = "Iterate Objects" -> "IterateObjects"
      [] name = "Get Object" -> "GetObject"
      [] OTHER -> name

\* a plausible bug: the nanoseconds are divided by 1e9
msecBySeconds(num, den) ==
    LET c == (2 * num + den * (Millisecond * 10))
                 \div (2 * den * (Millisecond * 10))
    IN ToString(c \div 100) \o "." \o ToString((c % 100) \div 10)
           \o ToString(c % 10)

\* msec: fmt.Sprintf("%.2f", ns/1e6) of the value num/den nanoseconds (not
\* negative): the nearest hundredth of a millisecond, two decimals
msec(num, den) ==
    LET c == (2 * num + den * (Millisecond \div 100))
                 \div (2 * den * (Millisecond \div 100))
    IN ToString(c \div 100) \o "." \o ToString((c % 100) \div 10)
           \o ToString(c % 10)

\* the line PrintStats prints for a Result and its histogram h
StatsRow(m, name, h) ==
    [Parts |-> m.Parts, Segments |-> m.Segments,
     Name |-> name,
     Hist |-> h,
     Avg |-> IF h.n = 0 THEN "0.00" ELSE msec(h.Sum, h.n),
     Max |-> msec(h.Maximum, 1),
     P50 |-> msec(h.P50, 1),
     P90 |-> msec(h.P90, 1),
     P99 |-> msec(h.P99, 1)]

\* a plausible bug: one row per measurement, for its first Result
PrintStatsFirstResult(m) ==
    IF m.Results = <<>> THEN [fed |-> <<>>, rows |-> <<>>]
    ELSE [fed  |-> <<m.Results[1].Durations>>,
          rows |-> <<StatsRow(m, m.Results[1].Name,
                         NewDurationHistogram(m.Results[1].Durations))>>]

\* Measurement.PrintStats: one histogram and one row per Result
PrintStats(m) ==
    [fed  |-> [i \in 1..Len(m.Results) |-> m.Results[i].Durations],
     rows |-> [i \in 1..Len(m.Results) |->
                  StatsRow(m, m.Results[i].Name,
                      NewDurationHistogram(m.Results[i].Durations))]]

RECURSIVE WriteTableFrom(_, _)
WriteTableFrom(ms, i) ==
    IF i > Len(ms) THEN [fed |-> <<>>, rows |-> <<>>]
    ELSE LET head == PrintStats(ms[i])
             rest == WriteTableFrom(ms, i + 1)
         IN [fed |-> head.fed \o rest.fed, rows |-> head.rows \o rest.rows]

\* WriteTable: the two header rows, then PrintStats of every measurement
WriteTable(ms) ==
    LET body == WriteTableFrom(ms, 1)
    IN [panic |-> FALSE, fed |-> body.fed,
        header |-> <<"Parts Segments Avg Max P50 P90 P99", "ms ms ms ms ms">>,
        rows |-> body.rows]

BenchStatOf(m) ==
    [fed  |-> [i \in 1..Len(m.Results) |-> m.Results[i].Durations],
     rows |-> [i \in 1..Len(m.Results) |->
                  LET r == m.Results[i]
                      h == NewDurationHistogram(r.Durations)
                  IN [Test |-> StripSpace(r.Name),
                      Parts |-> m.Parts, Segments |-> m.Segments,
                      Name |-> r.Name,
                      Count |-> Len(r.Durations),
                      Hist |-> h]]]

RECURSIVE WriteBenchStatFrom(_, _)
WriteBenchStatFrom(ms, i) ==
    IF i > Len(ms) THEN [fed |-> <<>>, rows |-> <<>>]
    ELSE LET head == BenchStatOf(ms[i])
             rest == WriteBenchStatFrom(ms, i + 1)
         IN [fed |-> head.fed \o rest.fed, rows |-> head.rows \o rest.rows]

\* WriteBenchStat: one line per (measurement, Result)
WriteBenchStat(ms) ==
    LET body == WriteBenchStatFrom(ms, 1)
    IN [panic |-> FALSE, fed |-> body.fed, rows |-> body.rows]

RECURSIVE SectionsOfResults(_, _, _)
SectionsOfResults(secs, rs, i) ==
    IF i < 1 THEN secs
    ELSE SectionsOfResults(includeString(secs, rs[i].Name), rs, i - 1)

RECURSIVE SectionsOfMeasurements(_, _, _)
SectionsOfMeasurements(secs, ms, i) ==
    IF i < 1 THEN secs
    ELSE SectionsOfMeasurements(
             SectionsOfResults(secs, ms[i].Results, Len(ms[i].Results)),
             ms, i - 1)

RECURSIVE SectionsOfRuns(_, _, _)
SectionsOfRuns(secs, brs, b) ==
    IF b > Len(brs) THEN secs
    ELSE SectionsOfRuns(
             SectionsOfMeasurements(secs, brs[b].Measurements,
                                    Len(brs[b].Measurements)),
             brs, b + 1)

\* the section names: runs in order, measurements and results in reverse,
\* then the list reversed
Sections(brs) == reverseStrings(SectionsOfRuns(<<>>, brs, 1))

RECURSIVE AllMeasurementsFrom(_, _)
\* every measurement with the index of its run (0-based), runs and
\* measurements in collection order
AllMeasurementsFrom(brs, b) ==
    IF b > Len(brs) THEN <<>>
    ELSE [i \in 1..Len(brs[b].Measurements) |->
             [bri |-> b - 1, m |-> brs[b].Measurements[i]]]
         \o AllMeasurementsFrom(brs, b + 1)

\* a plausible bug: only the measurements of the first run are taken
AllMeasurementsOfFirstRun(brs) ==
    IF brs = <<>> THEN <<>>
    ELSE [i \in 1..Len(brs[1].Measurements) |->
             [bri |-> 0, m |-> brs[1].Measurements[i]]]

AllMeasurements(brs) == AllMeasurementsFrom(brs, 1)

RECURSIVE VariantsSkippingAnyZero(_, _, _)
\* a plausible bug: a measurement is skipped when its parts or its segments
\* are 0, not only when both are
VariantsSkippingAnyZero(acc, all, i) ==
    IF i > Len(all) THEN acc
    ELSE LET m == all[i].m IN
         IF m.Parts = 0 \/ m.Segments = 0
         THEN VariantsSkippingAnyZero(acc, all, i + 1)
         ELSE VariantsSkippingAnyZero(
                  [parts |-> includeInt(acc.parts, m.Parts),
                   segments |-> includeInt(acc.segments, m.Segments)],
                  all, i + 1)

RECURSIVE Variants(_, _, _)
\* partVariants and segmentVariants
Variants(acc, all, i) ==
    IF i > Len(all) THEN acc
    ELSE LET m == all[i].m IN
         IF m.Parts = 0 /\ m.Segments = 0 THEN Variants(acc, all, i + 1)
         ELSE Variants([parts |-> includeInt(acc.parts, m.Parts),
                        segments |-> includeInt(acc.segments, m.Segments)],
                       all, i + 1)

\* a plausible bug: the samples are converted and sorted in the slice given
ConvertAndSortInPlace(ds) ==
    [durations |-> SortFloat64s(DurationTo(ds, Millisecond)),
     millis    |-> SortFloat64s(DurationTo(ds, Millisecond))]

\* millis := plot.DurationTo(r.Durations, time.Millisecond);
\* sort.Float64s(millis): the two slices afterwards. millis is a []float64
\* of its own, so the sort leaves r.Durations as it was
ConvertAndSort(ds) ==
    [durations |-> ds,
     millis    |-> SortFloat64s(DurationTo(ds, Millisecond))]

\* result.Durations after hrtime.NewDurationHistogram(result.Durations, ...):
\* the engine works on float64 nanoseconds, not on the []time.Duration given
DurationsAfterHistogram(ds) == ds

RECURSIVE SectionCurves(_, _, _, _, _)
\* the loop over runs and measurements of one gridded section; st carries
\* yAxis.Max, the curves added to the cells and the arrays given to percentile
SectionCurves(st, section, all, i, cells) ==
    IF i > Len(all) \/ st.panic THEN st
    ELSE
      LET m == all[i].m
          r == ResultByName(m.Results, section)
      IN IF r.idx = 0 THEN SectionCurves(st, section, all, i + 1, cells)
         ELSE
           LET millis == ConvertAndSort(m.Results[r.idx].Durations).millis
               p98 == percentile(millis, <<49, 50>>)
               scen == Scenario(m.Parts, m.Segments)
               fed2 == Append(st.fed, millis)
           IN IF ~p98.ok
              THEN [st EXCEPT !.panic = TRUE, !.fed = fed2]
              ELSE IF scen \notin cells
              THEN [st EXCEPT !.panic = TRUE, !.fed = fed2,
                              !.yMax = max(st.yMax, p98.v)]
              ELSE SectionCurves(
                       [st EXCEPT !.fed = fed2,
                                  !.yMax = max(st.yMax, p98.v),
                                  !.curves = Append(@,
                                      [bri |-> all[i].bri, scenario |-> scen,
                                       millis |-> millis])],
                       section, all, i + 1, cells)

\* the grid of a section: one row per parts variant, in it one cell per
\* segments variant, each the axis group of byScen for that scenario
GridRows(v) ==
    [i \in 1..Len(v.parts) |->
        [j \in 1..Len(v.segments) |-> Scenario(v.parts[i], v.segments[j])]]

RECURSIVE PlotSections(_, _, _, _, _)
PlotSections(acc, secs, s, all, v) ==
    IF s > Len(secs) \/ acc.panic THEN acc
    ELSE
      IF secs[s] = "Iterate Objects"
      THEN PlotSections(
               [acc EXCEPT !.grids = Append(@,
                   [section |-> secs[s], gridded |-> FALSE,
                    yMax |-> 0, curves |-> <<>>, rows |-> <<>>])],
               secs, s + 1, all, v)
      ELSE
        LET cells == {Scenario(p, g) : p \in Range(v.parts),
                                       g \in Range(v.segments)}
            st == SectionCurves(
                      [panic |-> FALSE, yMax |-> InitialAxisMax,
                       curves |-> <<>>, fed |-> <<>>],
                      secs[s], all, 1, cells)
        IN PlotSections(
               [acc EXCEPT !.panic = st.panic,
                           !.fed = @ \o st.fed,
                           !.grids = Append(@,
                               [section |-> secs[s], gridded |-> TRUE,
                                yMax |-> st.yMax, curves |-> st.curves,
                                rows |-> GridRows(v)])],
               secs, s + 1, all, v)

\* PlotPercentiles: sections, grid rows and columns, one grid per section
PlotPercentiles(brs) ==
    LET secs == Sections(brs)
        all == AllMeasurements(brs)
        v == Variants([parts |-> <<>>, segments |-> <<>>], all, 1)
        done == PlotSections([panic |-> FALSE, fed |-> <<>>, grids |-> <<>>],
                             secs, 1, all, v)
    IN [panic |-> done.panic, fed |-> done.fed,
        sections |-> secs,
        partVariants |-> v.parts, segmentVariants |-> v.segments,
        grids |-> done.grids]

\* the Results of the measurements after PrintStats or WriteBenchStat
MemoryAfterStats(ms) ==
    [i \in 1..Len(ms) |->
        [Parts |-> ms[i].Parts, Segments |-> ms[i].Segments,
         Results |-> [j \in 1..Len(ms[i].Results) |->
             [Name |-> ms[i].Results[j].Name,
              Durations |->
                  DurationsAfterHistogram(ms[i].Results[j].Durations)]]]]

RECURSIVE PlotTouches(_, _, _)
\* m.Results after the gridded sections secs[i], secs[i+1], ... have looked
\* the measurement up and plotted what they found
PlotTouches(rs, secs, i) ==
    IF i > Len(secs) THEN rs
    ELSE IF secs[i] = "Iterate Objects" THEN PlotTouches(rs, secs, i + 1)
    ELSE LET r == ResultByName(rs, secs[i])
         IN PlotTouches(
                IF r.idx = 0 THEN r.rs
                ELSE [r.rs EXCEPT ![r.idx].Durations =
                                      ConvertAndSort(@).durations],
                secs, i + 1)

\* the runs in memory after PlotPercentiles
MemoryAfterPlot(brs) ==
    [b \in 1..Len(brs) |->
        [Name |-> brs[b].Name,
         Measurements |-> [i \in 1..Len(brs[b].Measurements) |->
             LET m == brs[b].Measurements[i] IN
             [Parts |-> m.Parts, Segments |-> m.Segments,
              Results |-> PlotTouches(m.Results, Sections(brs), 1)]]]]

----------------------------------------------------------------------------
(* main: the result sets and the output loop *)

MaxOutputs == 3

Types == {"table", "std", "json", "plot-percentile", "csv"}

\* -out type or -out type:file
Requests ==
    {[Type |-> t, File |-> ""] : t \in Types}
        \cup {[Type |-> "table", File |-> "out"],
              [Type |-> "plot-percentile", File |-> "out"]}

FileNames == {"out"}

AbsentFile == [exists |-> FALSE, data |-> <<>>]
OldFile == [exists |-> TRUE, data |-> <<[kind |-> "old", rows |-> <<>>]>>]
CreatedFile == [exists |-> TRUE, data |-> <<>>]
Newline == [kind |-> "newline", rows |-> <<>>]

\* a run as Run returns it: scenario (1,1) and the scenario-less Iterate
MeasuredRun ==
    [Name |-> "Benchmark",
     Measurements |->
        <<[Parts |-> 1, Segments |-> 1,
           Results |-> <<[Name |-> "Get Object",
                          Durations |-> <<3 * Millisecond, 2 * Millisecond>>]>>],
          [Parts |-> 0, Segments |-> 0,
           Results |-> <<[Name |-> "Iterate Objects",
                          Durations |-> <<Millisecond>>]>>]>>]

\* a saved run whose JSON holds a Result without durations
SavedRunWithEmptyResult ==
    [Name |-> "saved",
     Measurements |->
        <<[Parts |-> 1, Segments |-> 1,
           Results |-> <<[Name |-> "Get Object", Durations |-> <<>>]>>]>>]

\* a saved run whose JSON is the empty array
SavedRunWithoutMeasurements == [Name |-> "none", Measurements |-> <<>>]

\* results after the load loop or after bench.Run: never empty
MainResultSets ==
    {<<MeasuredRun>>, <<SavedRunWithEmptyResult>>,
     <<SavedRunWithoutMeasurements>>,
     <<MeasuredRun, MeasuredRun>>,
     <<MeasuredRun, SavedRunWithEmptyResult>>,
     <<SavedRunWithoutMeasurements, MeasuredRun>>}

MainBegin ==
    /\ results \in MainResultSets
    /\ outputs \in BoundedSeq(Requests, MaxOutputs) \ {<<>>}
    /\ oi = 1
    /\ stdout = <<>>
    /\ files \in [FileNames -> {AbsentFile, OldFile}]
    /\ logs = <<>>
    /\ processed = <<>>
    /\ stoppedAt = 0

\* a plausible bug: the usage error ends the process (log.Fatal)
FatalOnUsageError(outcome) == outcome \in {"panic", "usage"}

\* which outcomes of a request end the process: every error of the switch is
\* logged with log.Error and the loop goes on; a panic in a renderer is not
\* recovered
Fatal(outcome) == outcome = "panic"

Handled(outcome, invoked, fed, written, log) ==
    [outcome |-> outcome, invoked |-> invoked, fed |-> fed,
     written |-> written, log |-> log]

UsageError(type) ==
    Handled("usage", FALSE, <<>>, <<>>,
            <<"multiple measurments not supported for " \o type>>)

\* the switch on out.Type; writeFails: the writer returns an error
Switch(type, brs, writeFails) ==
    CASE type = "table" ->
            IF Len(brs) # 1 THEN UsageError(type)
            ELSE LET t == WriteTable(brs[1].Measurements)
                 IN Handled("ok", TRUE, t.fed,
                            IF writeFails THEN <<>>
                            ELSE <<[kind |-> "table", rows |-> t.rows]>>,
                            <<>>)
      [] type = "std" ->
            IF Len(brs) # 1 THEN UsageError(type)
            ELSE LET t == WriteBenchStat(brs[1].Measurements)
                 IN Handled("ok", TRUE, t.fed,
                            IF writeFails THEN <<>>
                            ELSE <<[kind |-> "std", rows |-> t.rows]>>,
                            <<>>)
      [] type = "json" ->
            IF Len(brs) # 1 THEN UsageError(type)
            ELSE IF writeFails
            THEN Handled("error", TRUE, <<>>, <<>>, <<"writing json failed">>)
            ELSE Handled("ok", TRUE, <<>>,
                         <<[kind |-> "json", rows |-> brs[1].Measurements]>>,
                         <<>>)
      [] type = "plot-percentile" ->
            LET t == PlotPercentiles(brs)
            IN IF t.panic THEN Handled("panic", TRUE, t.fed, <<>>, <<>>)
               ELSE IF writeFails
               THEN Handled("error", TRUE, t.fed, <<>>,
                            <<"writing plot failed">>)
               ELSE Handled("ok", TRUE, t.fed,
                            <<[kind |-> "plot", rows |-> t.grids]>>, <<>>)
      [] OTHER ->
            Handled("unsupported", FALSE, <<>>, <<>>,
                    <<"output type not supported">>)

\* one pass of the output loop: the closure called with outputs[oi].
\* createFails: os.Create returns an error; writeFails: the writer does
ProcessOutput(createFails, writeFails) ==
    /\ stoppedAt = 0
    /\ oi \in 1..Len(outputs)
    /\ createFails => outputs[oi].File # ""
    /\ LET out == outputs[oi]
           toFile == out.File # "" /\ ~createFails
           files1 == IF toFile THEN [files EXCEPT ![out.File] = CreatedFile]
                     ELSE files
           logs1 == IF out.File # "" /\ createFails
                    THEN Append(logs, "failed to open file, writing to stdout")
                    ELSE logs
           stdout1 == IF toFile THEN stdout ELSE Append(stdout, Newline)
           h == Switch(out.Type, results, writeFails)
       IN /\ files' = IF toFile
                      THEN [files1 EXCEPT ![out.File].data = @ \o h.written]
                      ELSE files1
          /\ stdout' = IF toFile THEN stdout1 ELSE stdout1 \o h.written
          /\ logs' = logs1 \o h.log
          /\ processed' = Append(processed,
                 [idx |-> oi, request |-> out, outcome |-> h.outcome,
                  invoked |-> h.invoked, fed |-> h.fed,
                  written |-> h.written])
          /\ stoppedAt' = IF Fatal(h.outcome) THEN oi ELSE 0
          /\ oi' = IF Fatal(h.outcome) THEN oi ELSE oi + 1
    /\ UNCHANGED <<results, outputs>>

MainInit == MainBegin /\ StoreIdle /\ StatsIdle /\ RunIdle /\ RenderIdle

MainNext ==
    \E createFails, writeFails \in BOOLEAN :
        ProcessOutput(createFails, writeFails) /\ UNCHANGED mainFrame

SpecMain == MainInit /\ [][MainNext]_vars

----------------------------------------------------------------------------
(* Claims on the renderers and the output loop *)

\* C6: a Result without samples is never given to the histogram or
\* percentile computation and never appears as a rendered row or curve.
C6_EmptyResultsSkipped ==
    \A i \in 1..Len(processed) :
        /\ \A k \in 1..Len(processed[i].fed) : processed[i].fed[k] # <<>>
        /\ \A c \in 1..Len(processed[i].written) :
              processed[i].written[c].kind \in {"table", "std"} =>
                  \A r \in 1..Len(processed[i].written[c].rows) :
                      processed[i].written[c].rows[r].Hist.n > 0

\* C7: a table, std or json request made with other than one result set is
\* refused before anything happens at its destination: the renderer is not
\* invoked, stdout and the named file are as they were.
C7_UsageErrorTouchesNothing ==
    [][(processed' # processed
            /\ processed'[Len(processed')].outcome = "usage")
          => /\ ~processed'[Len(processed')].invoked
             /\ stdout' = stdout
             /\ files' = files]_vars

FailureKinds == {"usage", "unsupported", "error"}

\* C8: a usage error, an unsupported type or a renderer error ends only its
\* own request: the requests are handled one by one in the order given,
\* each once, none of these failures stops the loop (the loop goes on to
\* the next request), and main returns only after the last request.
C8_FailureEndsOnlyItsRequest ==
    /\ Len(processed) = (IF stoppedAt = 0 THEN oi - 1 ELSE oi)
    /\ oi \in 1..(Len(outputs) + 1)
    /\ \A i \in 1..Len(processed) :
          /\ processed[i].idx = i
          /\ processed[i].request = outputs[i]
          /\ processed[i].outcome \in FailureKinds =>
                stoppedAt # i /\ oi > i
          /\ stoppedAt = i => processed[i].outcome = "panic"

C8_Witness ==
    /\ Len(processed) = 3
    /\ processed[1].outcome = "ok"
    /\ processed[2].outcome = "usage"
    /\ processed[3].outcome = "ok"
    /\ stoppedAt = 0

----------------------------------------------------------------------------
(* The benchmark driver: Run and the five benchmarks *)

Count == 2

\* the hrtime difference a call to Record is given
Elapsed == 1

PartsVariants == <<1, 2>>
SegmentVariants == <<0, 2>>

\* Benchmark.Scenarios: parts outer, segments inner
Scenarios ==
    [i \in 1..(Len(PartsVariants) * Len(SegmentVariants)) |->
        Scenario(PartsVariants[((i - 1) \div Len(SegmentVariants)) + 1],
                 SegmentVariants[((i - 1) % Len(SegmentVariants)) + 1])]

NumScenarios == Len(Scenarios)

\* a plausible bug: every segment is taken for a remote one
remoteSegmentsAll(s) == s.Segments

\* all but the last segment are remote segments
remoteSegments(s) == IF s.Segments > 1 THEN s.Segments - 1 ELSE 0
\* the last segment is inline
inlineSegments(s) == IF s.Segments > 0 THEN 1 ELSE 0

\* the parts of an object: one goroutine each
WorkerIds ==
    UNION {0..(PartsVariants[i] - 1) : i \in 1..Len(PartsVariants)}
IdleWorker == [pc |-> "idle", r |-> 0, rec |-> "", next |-> ""]

\* the scenario of the benchmark being run; Iterate has none
CurScen == IF phase = "iterate" THEN Scenario(0, 0) ELSE Scenarios[si]
\* a plausible bug: one list of objects shared by all the scenarios
CurObjectsOfFirstScenario == objects[1]

\* objects := b.Objects[scenario]
CurObjects == objects[si]

\* a plausible bug: the loop of Delete placed before the loop of Download
NextCallDeleteBeforeDownload(ph, i) ==
    CASE ph = "upload" ->
            IF i < NumScenarios THEN [phase |-> "upload", si |-> i + 1]
            ELSE [phase |-> "iterate", si |-> 1]
      [] ph = "iterate" -> [phase |-> "list", si |-> 1]
      [] ph = "list" ->
            IF i < NumScenarios THEN [phase |-> "list", si |-> i + 1]
            ELSE [phase |-> "delete", si |-> 1]
      [] ph = "delete" ->
            IF i < NumScenarios THEN [phase |-> "delete", si |-> i + 1]
            ELSE [phase |-> "download", si |-> 1]
      [] ph = "download" ->
            IF i < NumScenarios THEN [phase |-> "download", si |-> i + 1]
            ELSE [phase |-> "returned", si |-> 0]

\* the call Run makes after the call (ph, i) returned without error
NextCall(ph, i) ==
    CASE ph = "upload" ->
            IF i < NumScenarios THEN [phase |-> "upload", si |-> i + 1]
            ELSE [phase |-> "iterate", si |-> 1]
      [] ph = "iterate" -> [phase |-> "list", si |-> 1]
      [] ph = "list" ->
            IF i < NumScenarios THEN [phase |-> "list", si |-> i + 1]
            ELSE [phase |-> "download", si |-> 1]
      [] ph = "download" ->
            IF i < NumScenarios THEN [phase |-> "download", si |-> i + 1]
            ELSE [phase |-> "delete", si |-> 1]
      [] ph = "delete" ->
            IF i < NumScenarios THEN [phase |-> "delete", si |-> i + 1]
            ELSE [phase |-> "returned", si |-> 0]

RunBegin ==
    /\ phase = "upload" /\ si = 1
    /\ mpc = "top" /\ mrec = "" /\ mnext = ""
    /\ ki = 0 /\ pj = 0 /\ sj = 0
    /\ workers = [w \in WorkerIds |-> IdleWorker]
    /\ cur = <<>>
    /\ objects = [i \in 1..NumScenarios |-> <<>>]
    /\ measurements = <<>>
    /\ started = <<[phase |-> "upload", si |-> 1]>>
    /\ failedAt = NoFailure
    /\ exit = "none"
    /\ rendered = <<>>
    /\ overtime = FALSE

Running == phase \in {"upload", "iterate", "list", "download", "delete"}

\* the benchmark returns (measurement, nil) and Run appends the measurement
\* and makes its next call, or returns (measurements, nil)
ReturnsOk ==
    LET nxt == NextCall(phase, si) IN
    /\ measurements' = Append(measurements,
           [Parts |-> CurScen.Parts, Segments |-> CurScen.Segments,
            Results |-> cur])
    /\ phase' = nxt.phase
    /\ si' = nxt.si
    /\ started' = IF nxt.phase = "returned" THEN started
                  ELSE Append(started, nxt)
    /\ cur' = <<>>
    /\ mpc' = "top" /\ mrec' = "" /\ mnext' = ""
    /\ ki' = 0 /\ pj' = 0 /\ sj' = 0
    /\ workers' = [w \in WorkerIds |-> IdleWorker]
    /\ overtime' = FALSE
    /\ UNCHANGED <<failedAt, exit, rendered>>

\* the benchmark returns (measurement, err) and Run returns (nil, err)
ReturnsErr ==
    /\ failedAt' = [phase |-> phase, si |-> si]
    /\ phase' = "failed"
    /\ mpc' = "" /\ mrec' = "" /\ mnext' = ""
    /\ UNCHANGED <<si, ki, pj, sj, workers, cur, measurements, started,
                   exit, rendered, overtime>>

\* the first half of measurement.Record(name, d) by the main routine:
\* r := m.Result(name)
MainEntersRecord(name, next) ==
    /\ cur' = Result(cur, name).rs
    /\ mpc' = "record" /\ mrec' = name /\ mnext' = next

\* a database call of the main routine whose duration is recorded under name
MainCall(at, ok, name, next) ==
    /\ Running /\ mpc = at
    /\ IF ok
       THEN /\ MainEntersRecord(name, next)
            /\ UNCHANGED <<phase, si, ki, pj, workers, measurements,
                           started, failedAt, exit, rendered, overtime>>
       ELSE ReturnsErr

\* the second half of Record by the main routine:
\* r.Durations = append(r.Durations, duration)
MainRecords ==
    /\ Running /\ mpc = "record"
    /\ cur' = [cur EXCEPT ![FindResult(cur, mrec, 1)].Durations =
                              Append(@, Elapsed)]
    /\ mpc' = mnext /\ mrec' = "" /\ mnext' = ""
    /\ UNCHANGED <<phase, si, ki, pj, sj, workers, objects, measurements,
                   started, failedAt, exit, rendered, overtime>>

(* ---- Upload ---- *)

\* time passes while Upload or Iterate runs: from some moment on
\* time.Since(start) > b.MaxDuration
TimePasses ==
    /\ phase \in {"upload", "iterate"}
    /\ ~overtime
    /\ overtime' = TRUE
    /\ UNCHANGED <<phase, si, mpc, mrec, mnext, ki, pj, sj, workers, cur,
                   objects, measurements, started, failedAt, exit, rendered>>

\* a plausible bug: the loop does not look at the time
LoopIgnoresTime(k, late) == k >= Count

\* the loop of Upload and of Iterate ends: k < b.Count is false, or the
\* check at the top of the iteration finds the time used up and breaks
LoopExits(k, late) == k >= Count \/ late

\* top of the loop of Upload and of Iterate
LoopTop ==
    /\ phase \in {"upload", "iterate"} /\ mpc = "top"
    /\ IF LoopExits(ki, overtime)
       THEN ReturnsOk /\ UNCHANGED objects
       ELSE /\ IF phase = "upload"
               THEN /\ objects' = [objects EXCEPT ![si] =
                           Append(@, [scenario |-> si, n |-> Len(@) + 1])]
                    /\ mpc' = "beginObject"
               ELSE /\ objects' = objects
                    /\ mpc' = "iterateObjects"
            /\ UNCHANGED <<phase, si, mrec, mnext, ki, pj, sj, workers, cur,
                           measurements, started, failedAt, exit, rendered, overtime>>

BeginObject(ok) ==
    /\ phase = "upload"
    /\ MainCall("beginObject", ok, "Begin Object",
                IF CurScen.Parts > 0 THEN "go" ELSE "commitObject")
    /\ UNCHANGED <<objects, sj>>

StartedWorker(s) ==
    [pc |-> IF remoteSegments(s) > 0 THEN "beginSegment"
            ELSE IF inlineSegments(s) > 0 THEN "commitInline"
            ELSE "done",
     r |-> 0, rec |-> "", next |-> ""]

\* a plausible bug: g.Wait() after the loop over the parts, not inside it
WaitAfterTheLoop(part, parts) ==
    IF part + 1 < parts THEN [mpc |-> "go", pj |-> part + 1]
    ELSE [mpc |-> "wait", pj |-> part]

\* where the main routine goes after g.Go(...) for part: to g.Wait(), which
\* is inside the loop over the parts
AfterGo(part, parts) == [mpc |-> "wait", pj |-> part]

\* g.Go(func() error {...}) for part pj
Go ==
    /\ phase = "upload" /\ mpc = "go"
    /\ workers' = [workers EXCEPT ![pj] = StartedWorker(CurScen)]
    /\ LET a == AfterGo(pj, CurScen.Parts)
       IN mpc' = a.mpc /\ pj' = a.pj
    /\ UNCHANGED <<phase, si, mrec, mnext, ki, sj, cur, objects, measurements,
                   started, failedAt, exit, rendered, overtime>>

\* g.Wait() returns once every goroutine started has returned
Wait ==
    /\ phase = "upload" /\ mpc = "wait"
    /\ \A w \in WorkerIds : workers[w].pc \in {"idle", "done", "failed"}
    /\ IF \E w \in WorkerIds : workers[w].pc = "failed"
       THEN ReturnsErr /\ UNCHANGED objects
       ELSE /\ pj' = pj + 1
            /\ mpc' = IF pj + 1 < CurScen.Parts THEN "go" ELSE "commitObject"
            /\ UNCHANGED <<phase, si, mrec, mnext, ki, sj, workers, cur,
                           objects, measurements, started, failedAt, exit,
                           rendered, overtime>>

\* a plausible bug: the worker takes the Result before the database call
\* and leaves it behind when the call fails
WorkerCallResultFirst(w, at, ok, name, next, r2) ==
    /\ phase = "upload" /\ workers[w].pc = at
    /\ cur' = Result(cur, name).rs
    /\ IF ok
       THEN workers' = [workers EXCEPT ![w] =
                [pc |-> "record", r |-> r2, rec |-> name, next |-> next]]
       ELSE workers' = [workers EXCEPT ![w].pc = "failed"]
    /\ UNCHANGED <<phase, si, mpc, mrec, mnext, ki, pj, sj, objects,
                   measurements, started, failedAt, exit, rendered, overtime>>

\* a database call of the worker of part w whose duration is recorded
WorkerCall(w, at, ok, name, next, r2) ==
    /\ phase = "upload" /\ workers[w].pc = at
    /\ IF ok
       THEN /\ cur' = Result(cur, name).rs
            /\ workers' = [workers EXCEPT ![w] =
                   [pc |-> "record", r |-> r2, rec |-> name, next |-> next]]
       ELSE /\ cur' = cur
            /\ workers' = [workers EXCEPT ![w].pc = "failed"]
    /\ UNCHANGED <<phase, si, mpc, mrec, mnext, ki, pj, sj, objects,
                   measurements, started, failedAt, exit, rendered, overtime>>

BeginSegment(w, ok) ==
    WorkerCall(w, "beginSegment", ok, "Begin Remote Segment", "commitSegment",
               workers[w].r)

CommitSegment(w, ok) ==
    WorkerCall(w, "commitSegment", ok, "Commit Remote Segment",
               IF workers[w].r + 1 < remoteSegments(CurScen) THEN "beginSegment"
               ELSE IF inlineSegments(CurScen) > 0 THEN "commitInline"
               ELSE "done",
               workers[w].r + 1)

CommitInlineSegment(w, ok) ==
    WorkerCall(w, "commitInline", ok, "Commit Inline Segment", "done",
               workers[w].r)

\* the second half of Record by the worker of part w
WorkerRecords(w) ==
    /\ phase = "upload" /\ workers[w].pc = "record"
    /\ cur' = [cur EXCEPT ![FindResult(cur, workers[w].rec, 1)].Durations =
                              Append(@, Elapsed)]
    /\ workers' = [workers EXCEPT ![w].pc = workers[w].next,
                                  ![w].rec = "", ![w].next = ""]
    /\ UNCHANGED <<phase, si, mpc, mrec, mnext, ki, pj, sj, objects,
                   measurements, started, failedAt, exit, rendered, overtime>>

CommitObject(ok) ==
    /\ phase = "upload"
    /\ MainCall("commitObject", ok, "Commit Object", "total")
    /\ UNCHANGED <<objects, sj>>

\* measurement.Record("Upload Total", ...) and k++; the next object gets a
\* new errgroup and its loop over the parts starts at 0 again
UploadTotal ==
    /\ phase = "upload" /\ mpc = "total"
    /\ MainEntersRecord("Upload Total", "top")
    /\ ki' = ki + 1 /\ pj' = 0
    /\ workers' = [w \in WorkerIds |-> IdleWorker]
    /\ UNCHANGED <<phase, si, sj, objects, measurements, started,
                   failedAt, exit, rendered, overtime>>

(* ---- Iterate ---- *)

IterateObjects(ok) ==
    /\ phase = "iterate"
    /\ MainCall("iterateObjects", ok, "Iterate Objects", "iterated")
    /\ UNCHANGED <<objects, sj>>

IterateNext ==
    /\ phase = "iterate" /\ mpc = "iterated"
    /\ ki' = ki + 1 /\ mpc' = "top"
    /\ UNCHANGED <<phase, si, mrec, mnext, pj, sj, workers, cur, objects,
                   measurements, started, failedAt, exit, rendered, overtime>>

(* ---- ListSegments, Download, Delete: one pass per object uploaded ---- *)

\* for _, location := range objects
ObjectsTop ==
    /\ phase \in {"list", "download", "delete"} /\ mpc = "top"
    /\ IF ki >= Len(CurObjects)
       THEN ReturnsOk
       ELSE /\ mpc' = CASE phase = "list" -> "getObject"
                        [] phase = "download" -> "getObject"
                        [] phase = "delete" -> "deleteObject"
            /\ UNCHANGED <<phase, si, mrec, mnext, ki, pj, sj, workers, cur,
                           measurements, started, failedAt, exit, rendered, overtime>>
    /\ UNCHANGED objects

\* ListSegments: GetObjectLatestVersion, not recorded
ListGetObject(ok) ==
    /\ phase = "list" /\ mpc = "getObject"
    /\ IF ok
       THEN /\ mpc' = "listSegments"
            /\ UNCHANGED <<phase, si, mrec, mnext, ki, pj, sj, workers, cur,
                           measurements, started, failedAt, exit, rendered, overtime>>
       ELSE ReturnsErr
    /\ UNCHANGED objects

\* the answer of the storage backend to a request of the paging loop that
\* was answered with More before: the request names the stream and nothing
\* else, and the segments of the stream have not changed, so the answer is
\* the same
SameAnswer(at, more) == at = "listSegmentsMore" => more

\* one db.ListSegments request of the paging loop and its answer
ListSegmentsRequest(ok, more) ==
    /\ phase = "list" /\ mpc \in {"listSegments", "listSegmentsMore"}
    /\ SameAnswer(mpc, more)
    /\ IF ok /\ more
       THEN /\ mpc' = "listedMore"
            /\ UNCHANGED <<phase, si, mrec, mnext, ki, pj, workers, cur,
                           measurements, started, failedAt, exit, rendered,
                           overtime>>
       ELSE MainCall(mpc, ok, "List Segments", "nextObject")
    /\ UNCHANGED <<objects, sj>>

\* if !result.More { break } with More set: the loop goes round and sends
\* the request again, unchanged
ListSegmentsAgain ==
    /\ phase = "list" /\ mpc = "listedMore"
    /\ mpc' = "listSegmentsMore"
    /\ UNCHANGED <<phase, si, mrec, mnext, ki, pj, sj, workers, cur, objects,
                   measurements, started, failedAt, exit, rendered, overtime>>

NextObject ==
    /\ phase \in {"list", "download", "delete"} /\ mpc = "nextObject"
    /\ ki' = ki + 1 /\ mpc' = "top" /\ pj' = 0 /\ sj' = 0
    /\ UNCHANGED <<phase, si, mrec, mnext, workers, cur, objects,
                   measurements, started, failedAt, exit, rendered, overtime>>

DownloadGetObject(ok) ==
    /\ phase = "download"
    /\ MainCall("getObject", ok, "Get Object", "segmentsTop")
    /\ UNCHANGED <<objects, sj>>

\* the loops over p and i of Download
SegmentsTop ==
    /\ phase = "download" /\ mpc = "segmentsTop"
    /\ IF pj >= CurScen.Parts
       THEN mpc' = "total" /\ pj' = pj /\ sj' = sj
       ELSE IF sj >= CurScen.Segments
       THEN mpc' = "segmentsTop" /\ pj' = pj + 1 /\ sj' = 0
       ELSE mpc' = "getSegment" /\ pj' = pj /\ sj' = sj
    /\ UNCHANGED <<phase, si, mrec, mnext, ki, workers, cur, objects,
                   measurements, started, failedAt, exit, rendered, overtime>>

GetSegment(ok) ==
    /\ phase = "download"
    /\ MainCall("getSegment", ok, "Get Segment", "segmentsTop")
    /\ IF ok THEN sj' = sj + 1 ELSE sj' = sj
    /\ UNCHANGED objects

DownloadTotal ==
    /\ phase = "download" /\ mpc = "total"
    /\ MainEntersRecord("Download Total", "nextObject")
    /\ UNCHANGED <<phase, si, ki, pj, sj, workers, objects, measurements,
                   started, failedAt, exit, rendered, overtime>>

DeleteObject(ok) ==
    /\ phase = "delete"
    /\ MainCall("deleteObject", ok, "Delete Object", "nextObject")
    /\ UNCHANGED <<objects, sj>>

(* ---- main after bench.Run ---- *)

\* err != nil: log.Fatal, the process exits; otherwise the measurements
\* become the one result set handed to the output loop
AfterRun ==
    /\ phase \in {"returned", "failed"} /\ exit = "none"
    /\ IF phase = "failed"
       THEN exit' = "fatal" /\ rendered' = <<>>
       ELSE exit' = "outputs" /\ rendered' = measurements
    /\ UNCHANGED <<phase, si, mpc, mrec, mnext, ki, pj, sj, workers, cur,
                   objects, measurements, started, failedAt, overtime>>

RunInit == RunBegin /\ StoreIdle /\ StatsIdle /\ MainIdle /\ RenderIdle

RunNext ==
    \/ TimePasses /\ UNCHANGED runFrame
    \/ LoopTop /\ UNCHANGED runFrame
    \/ \E ok \in BOOLEAN : BeginObject(ok) /\ UNCHANGED runFrame
    \/ MainRecords /\ UNCHANGED runFrame
    \/ Go /\ UNCHANGED runFrame
    \/ Wait /\ UNCHANGED runFrame
    \/ \E w \in WorkerIds, ok \in BOOLEAN : BeginSegment(w, ok) /\ UNCHANGED runFrame
    \/ \E w \in WorkerIds, ok \in BOOLEAN : CommitSegment(w, ok) /\ UNCHANGED runFrame
    \/ \E w \in WorkerIds, ok \in BOOLEAN : CommitInlineSegment(w, ok) /\ UNCHANGED runFrame
    \/ \E w \in WorkerIds : WorkerRecords(w) /\ UNCHANGED runFrame
    \/ \E ok \in BOOLEAN : CommitObject(ok) /\ UNCHANGED runFrame
    \/ UploadTotal /\ UNCHANGED runFrame
    \/ \E ok \in BOOLEAN : IterateObjects(ok) /\ UNCHANGED runFrame
    \/ IterateNext /\ UNCHANGED runFrame
    \/ ObjectsTop /\ UNCHANGED runFrame
    \/ \E ok \in BOOLEAN : ListGetObject(ok) /\ UNCHANGED runFrame
    \/ \E ok, more \in BOOLEAN : ListSegmentsRequest(ok, more) /\ UNCHANGED runFrame
    \/ ListSegmentsAgain /\ UNCHANGED runFrame
    \/ NextObject /\ UNCHANGED runFrame
    \/ \E ok \in BOOLEAN : DownloadGetObject(ok) /\ UNCHANGED runFrame
    \/ SegmentsTop /\ UNCHANGED runFrame
    \/ \E ok \in BOOLEAN : GetSegment(ok) /\ UNCHANGED runFrame
    \/ DownloadTotal /\ UNCHANGED runFrame
    \/ \E ok \in BOOLEAN : DeleteObject(ok) /\ UNCHANGED runFrame
    \/ AfterRun /\ UNCHANGED <<runFrame, objects>>

SpecRun == RunInit /\ [][RunNext]_vars

\* the steps of a run in which the database call made, if any, succeeds
RunProgress ==
    \/ LoopTop
    \/ BeginObject(TRUE)
    \/ MainRecords
    \/ Go
    \/ Wait
    \/ \E w \in WorkerIds : BeginSegment(w, TRUE)
    \/ \E w \in WorkerIds : CommitSegment(w, TRUE)
    \/ \E w \in WorkerIds : CommitInlineSegment(w, TRUE)
    \/ \E w \in WorkerIds : WorkerRecords(w)
    \/ CommitObject(TRUE)
    \/ UploadTotal
    \/ IterateObjects(TRUE)
    \/ IterateNext
    \/ ObjectsTop
    \/ ListGetObject(TRUE)
    \/ \E more \in BOOLEAN : ListSegmentsRequest(TRUE, more)
    \/ ListSegmentsAgain
    \/ NextObject
    \/ DownloadGetObject(TRUE)
    \/ SegmentsTop
    \/ GetSegment(TRUE)
    \/ DownloadTotal
    \/ DeleteObject(TRUE)

\* the run keeps going: the goroutines are scheduled and the database
\* answers; nothing obliges the database to fail or the time to run out
SpecRunFair == SpecRun /\ WF_vars(RunProgress /\ UNCHANGED runFrame)

----------------------------------------------------------------------------
(* Claims about the driver *)

\* the benchmark calls of a whole run: Upload, ListSegments, Download and
\* Delete once per scenario, Iterate once
CallsOfRun ==
    {[phase |-> ph, si |-> i] :
        ph \in {"upload", "list", "download", "delete"}, i \in 1..NumScenarios}
    \cup {[phase |-> "iterate", si |-> 1]}

\* C9: a storage failure during one scenario's benchmark aborts only that
\* scenario: once the program is past Run, every benchmark call of the run
\* has still been made, and the measurements completed before the failure
\* have been returned and handed to the output loop.
C9_FailureAbortsOnlyItsScenario ==
    (failedAt # NoFailure /\ exit # "none") =>
        /\ CallsOfRun \subseteq Range(started)
        /\ exit = "outputs"
        /\ Len(rendered) >= Len(measurements)
        /\ \A i \in 1..Len(measurements) : rendered[i] = measurements[i]

\* the goroutines that are inside measurement.Record
InRecord ==
    {w \in WorkerIds : workers[w].pc = "record"}
    \cup (IF mpc = "record" THEN {"main"} ELSE {})

\* C10: in every interleaving of Upload's part workers and its main routine
\* no two Record calls on the measurement are in progress at the same time:
\* while a worker is inside Record the main routine is blocked in g.Wait()
\* and no other worker is running.
C10_NoOverlappingRecord ==
    phase = "upload" =>
        /\ Cardinality(InRecord) <= 1
        /\ \A w \in WorkerIds :
              workers[w].pc \notin {"idle", "done", "failed"} =>
                  /\ mpc = "wait"
                  /\ \A v \in WorkerIds \ {w} :
                        workers[v].pc \in {"idle", "done", "failed"}

\* the worker of the second part is inside Record after the worker of the
\* first part has recorded and returned
C10_Witness ==
    /\ phase = "upload"
    /\ CurScen.Parts = 2
    /\ workers[0].pc = "done"
    /\ workers[1].pc = "record"
    /\ workers[1].rec = "Commit Remote Segment"
    /\ \E i \in 1..Len(cur) :
          cur[i].Name = "Commit Remote Segment" /\ Len(cur[i].Durations) >= 1

\* the iterations the running Upload or Iterate has started: Upload appends
\* one object per iteration, Iterate counts them in k
IterationsStarted ==
    IF phase = "upload" THEN Len(objects[si])
    ELSE ki + (IF mpc = "top" THEN 0 ELSE 1)

\* C11: in Upload and Iterate the time limit is looked at only at the top of
\* an iteration: at most Count iterations start, an iteration starts only at
\* the top and only while the time is not used up, an iteration that has
\* started is ended by nothing but an error, and when the top of the loop
\* finds the time used up the samples collected so far are returned without
\* error.
C11_TimeLimitCheckedAtLoopTop ==
    /\ [](phase \in {"upload", "iterate"} => IterationsStarted <= Count)
    /\ [][(phase \in {"upload", "iterate"} =>
            /\ (phase' = phase /\ si' = si
                    /\ IterationsStarted' > IterationsStarted)
                  => (mpc = "top" /\ ~overtime
                        /\ IterationsStarted' = IterationsStarted + 1)
            /\ (mpc # "top" /\ overtime)
                  => \/ phase' = "failed"
                     \/ (phase' = phase /\ si' = si
                            /\ measurements' = measurements)
            /\ (mpc = "top" /\ overtime)
                  => /\ phase' # "failed"
                     /\ failedAt' = NoFailure
                     /\ measurements' = Append(measurements,
                            [Parts |-> CurScen.Parts,
                             Segments |-> CurScen.Segments,
                             Results |-> cur]))]_vars

\* the Upload of the first scenario was stopped by the time limit after one
\* of its Count iterations and its samples were returned
C11_Witness ==
    /\ Len(measurements) >= 1
    /\ Len(objects[1]) = 1
    /\ Count > 1
    /\ failedAt = NoFailure
    /\ \E i \in 1..Len(measurements[1].Results) :
          /\ measurements[1].Results[i].Name = "Upload Total"
          /\ Len(measurements[1].Results[i].Durations) = 1

----------------------------------------------------------------------------
(* The renderers applied to given runs *)

MaxMeasurements == 2

\* the measurement of a driver that records 10ms, 20ms and 30ms under "Op"
\* for the scenario (parts=1, segments=0)
OpMeasurement ==
    [Parts |-> 1, Segments |-> 0,
     Results |-> Record(Record(Record(<<>>, "Op", 10 * Millisecond),
                               "Op", 20 * Millisecond),
                        "Op", 30 * Millisecond)]

\* measurements as Run returns them or as a saved run holds them
RenderMeasurements ==
    {OpMeasurement,
     [Parts |-> 1, Segments |-> 1,
      Results |-> <<[Name |-> "Get Object",
                     Durations |-> <<3 * Millisecond, 2 * Millisecond>>],
                    [Name |-> "Op", Durations |-> <<Millisecond>>]>>],
     [Parts |-> 2, Segments |-> 1,
      Results |-> <<[Name |-> "Op", Durations |-> <<5 * Millisecond>>]>>],
     [Parts |-> 1, Segments |-> 2,
      Results |-> <<[Name |-> "Get Object",
                     Durations |-> <<Millisecond \div 20>>]>>],
     [Parts |-> 0, Segments |-> 0,
      Results |-> <<[Name |-> "Iterate Objects",
                     Durations |-> <<Millisecond>>]>>],
     [Parts |-> 0, Segments |-> 0,
      Results |-> <<[Name |-> "Op", Durations |-> <<2 * Millisecond>>]>>]}

\* one run, or two runs of which one has at most one measurement
RenderResultSets ==
    LET long == BoundedSeq(RenderMeasurements, MaxMeasurements)
        short == BoundedSeq(RenderMeasurements, 1)
    IN {<<[Name |-> "a", Measurements |-> a]>> : a \in long}
       \cup {<<[Name |-> "a", Measurements |-> a],
               [Name |-> "b", Measurements |-> b]>> : a \in long, b \in short}
       \cup {<<[Name |-> "a", Measurements |-> b],
               [Name |-> "b", Measurements |-> a]>> : a \in long, b \in short}

RenderBegin ==
    /\ rin \in RenderResultSets
    /\ rmem = rin
    /\ rop = "none"
    /\ rout = <<>>

\* -out table with one result set: WriteTable(ctx, w, results[0].Measurements)
RenderTable ==
    /\ rop = "none" /\ Len(rin) = 1
    /\ rop' = "table"
    /\ rout' = WriteTable(rin[1].Measurements)
    /\ rmem' = [rmem EXCEPT ![1].Measurements = MemoryAfterStats(@)]
    /\ UNCHANGED rin

\* -out std with one result set: WriteBenchStat(ctx, w, results[0].Measurements)
RenderStd ==
    /\ rop = "none" /\ Len(rin) = 1
    /\ rop' = "std"
    /\ rout' = WriteBenchStat(rin[1].Measurements)
    /\ rmem' = [rmem EXCEPT ![1].Measurements = MemoryAfterStats(@)]
    /\ UNCHANGED rin

\* -out plot-percentile: PlotPercentiles(ctx, w, results)
RenderPlot ==
    /\ rop = "none"
    /\ rop' = "plot"
    /\ rout' = PlotPercentiles(rin)
    /\ rmem' = MemoryAfterPlot(rmem)
    /\ UNCHANGED rin

RenderInit == RenderBegin /\ StoreIdle /\ StatsIdle /\ MainIdle /\ RunIdle

RenderNext ==
    \/ RenderTable /\ UNCHANGED renderFrame
    \/ RenderStd /\ UNCHANGED renderFrame
    \/ RenderPlot /\ UNCHANGED renderFrame

SpecRender == RenderInit /\ [][RenderNext]_vars

RECURSIVE ResultsBefore(_, _)
\* the number of Results of the measurements before the i-th
ResultsBefore(ms, i) ==
    IF i <= 1 THEN 0
    ELSE ResultsBefore(ms, i - 1) + Len(ms[i - 1].Results)

C13_OpRowWithMedianTwenty ==
    (rop = "table" /\ rin[1].Measurements = <<OpMeasurement>>) =>
        /\ Len(rout.rows) = 1
        /\ rout.rows[1].Avg = "20.00"
        /\ rout.rows[1].Max = "30.00"
        /\ rout.rows[1].P50 = "20.00"

\* C13 amended: the row has Avg=20.00, Max=30.00 and P50=30.00, the sample
\* at the nearest rank ceil(0.5 * 3) = 2 of the sorted samples (0-based).
C13_OpRowWithNearestRank ==
    (rop = "table" /\ rin[1].Measurements = <<OpMeasurement>>) =>
        /\ Len(rout.rows) = 1
        /\ rout.rows[1].Parts = 1 /\ rout.rows[1].Segments = 0
        /\ rout.rows[1].Name = "Op"
        /\ rout.rows[1].Avg = "20.00"
        /\ rout.rows[1].Max = "30.00"
        /\ rout.rows[1].P50 = "30.00"

C13_Witness ==
    /\ rop = "table"
    /\ rin[1].Measurements = <<OpMeasurement>>
    /\ OpMeasurement.Results[1].Durations =
           <<10 * Millisecond, 20 * Millisecond, 30 * Millisecond>>
    /\ rout.rows[1].P50 = "30.00"

\* C14: statistics and rendering never change their input: after WriteTable,
\* WriteBenchStat or PlotPercentiles has returned, every Result's Durations
\* holds the same values in the same order as before (sorting is done on a
\* copy) and no Result or Measurement has been added or removed.
C14_RenderersLeaveInputAlone ==
    (rop \in {"table", "std", "plot"} /\ ~rout.panic) => rmem = rin

\* a plot made of samples recorded out of order: the curve is sorted, the
\* Result still holds them as recorded
C14_Witness ==
    /\ rop = "plot" /\ ~rout.panic
    /\ \E g \in 1..Len(rout.grids) : \E c \in 1..Len(rout.grids[g].curves) :
          rout.grids[g].curves[c].millis = <<2 * Millisecond, 3 * Millisecond>>
    /\ \E b \in 1..Len(rmem) : \E i \in 1..Len(rmem[b].Measurements) :
          \E j \in 1..Len(rmem[b].Measurements[i].Results) :
              rmem[b].Measurements[i].Results[j].Durations =
                  <<3 * Millisecond, 2 * Millisecond>>

Reverse(s) == [i \in 1..Len(s) |-> s[Len(s) + 1 - i]]

RECURSIVE FirstSeen(_)
\* the values of s, each once, in the order of their first occurrences
FirstSeen(s) ==
    IF s = <<>> THEN <<>>
    ELSE LET init == FirstSeen(SubSeq(s, 1, Len(s) - 1))
         IN IF s[Len(s)] \in Range(init) THEN init
            ELSE Append(init, s[Len(s)])

RECURSIVE NamesFrom(_, _)
\* the Result names of the measurements ms[i], ms[i+1], ... in collection order
NamesFrom(ms, i) ==
    IF i > Len(ms) THEN <<>>
    ELSE [j \in 1..Len(ms[i].Results) |-> ms[i].Results[j].Name]
         \o NamesFrom(ms, i + 1)

RECURSIVE NamesOfRunsFrom(_, _)
\* the Result names of the runs brs[b], brs[b+1], ... in collection order
NamesOfRunsFrom(brs, b) ==
    IF b > Len(brs) THEN <<>>
    ELSE NamesFrom(brs[b].Measurements, 1) \o NamesOfRunsFrom(brs, b + 1)

RECURSIVE RunwiseReversedNamesFrom(_, _)
\* the Result names met by a scan that takes the runs in collection order and
\* the measurements and Results of each run in reverse order
RunwiseReversedNamesFrom(brs, b) ==
    IF b > Len(brs) THEN <<>>
    ELSE Reverse(NamesFrom(brs[b].Measurements, 1))
         \o RunwiseReversedNamesFrom(brs, b + 1)

\* C15 as stated: PlotPercentiles produces one section per distinct Result
\* name of any run, and the section order is the reverse of the first-seen
\* order of a scan that visits the runs and each run's measurements in
\* reverse collection order.
C15_SectionsReverseOfFullyReversedScan ==
    (rop = "plot" /\ ~rout.panic) =>
        /\ Range(rout.sections) = Range(NamesOfRunsFrom(rin, 1))
        /\ Len(rout.sections) = Cardinality(Range(rout.sections))
        /\ rout.sections = Reverse(FirstSeen(Reverse(NamesOfRunsFrom(rin, 1))))

\* C15 amended: one section per distinct Result name of any run, and the
\* section order is the reverse of the first-seen order of a scan that visits
\* the runs in collection order and, within each run, the measurements and
\* their Results in reverse order.
C15_SectionsReverseOfRunwiseReversedScan ==
    (rop = "plot" /\ ~rout.panic) =>
        /\ Range(rout.sections) = Range(NamesOfRunsFrom(rin, 1))
        /\ Len(rout.sections) = Cardinality(Range(rout.sections))
        /\ Len(rout.grids) = Len(rout.sections)
        /\ \A g \in 1..Len(rout.grids) :
              rout.grids[g].section = rout.sections[g]
        /\ rout.sections = Reverse(FirstSeen(RunwiseReversedNamesFrom(rin, 1)))

\* two runs whose names differ: the order of the runs decides the order of
\* the sections
C15_Witness ==
    /\ rop = "plot" /\ ~rout.panic
    /\ Len(rin) = 2
    /\ rout.sections = <<"Op", "Get Object">>
    /\ NamesOfRunsFrom(rin, 1) = <<"Get Object", "Op">>

\* the measurements of run b that have the scenario (p, g) and a Result
\* named name
PairsOfCell(brs, b, name, p, g) ==
    {i \in 1..Len(brs[b].Measurements) :
        LET m == brs[b].Measurements[i] IN
        /\ m.Parts = p /\ m.Segments = g
        /\ \E j \in 1..Len(m.Results) : m.Results[j].Name = name}

\* the curves that run b has in the cell (p, g) of a grid
CurvesOfCell(grid, b, p, g) ==
    {c \in 1..Len(grid.curves) :
        /\ grid.curves[c].bri = b - 1
        /\ grid.curves[c].scenario = [Parts |-> p, Segments |-> g]}

\* a measurement without scenario that has a Result no placeholder section
\* is made for
ScenarioLessWithGriddedName(brs) ==
    \E b \in 1..Len(brs) : \E i \in 1..Len(brs[b].Measurements) :
        LET m == brs[b].Measurements[i] IN
        /\ m.Parts = 0 /\ m.Segments = 0
        /\ \E j \in 1..Len(m.Results) : m.Results[j].Name # "Iterate Objects"

\* C16: in every gridded section each cell (parts, segments) holds exactly
\* one curve per (run, measurement) pair whose measurement has that scenario
\* and a Result with the section's name; a run without that combination adds
\* no curve, not even an empty one, and causes no error (the renderer fails
\* only on a scenario-less measurement, see C17), and the curves of the other
\* runs are added.
C16_OneCurvePerRunAndMeasurement ==
    rop = "plot" =>
        /\ rout.panic => ScenarioLessWithGriddedName(rin)
        /\ ~rout.panic =>
              \A g \in 1..Len(rout.grids) :
                  LET grid == rout.grids[g] IN
                  grid.gridded =>
                      /\ \A c \in 1..Len(grid.curves) :
                            /\ grid.curves[c].millis # <<>>
                            /\ grid.curves[c].scenario.Parts
                                   \in Range(rout.partVariants)
                            /\ grid.curves[c].scenario.Segments
                                   \in Range(rout.segmentVariants)
                      /\ \A b \in 1..Len(rin) :
                            \A p \in Range(rout.partVariants) :
                                \A sg \in Range(rout.segmentVariants) :
                                    Cardinality(CurvesOfCell(grid, b, p, sg))
                                      = Cardinality(PairsOfCell(rin, b,
                                            grid.section, p, sg))

\* two runs: the second has no "Get Object" for the scenario (1, 1); the
\* cell holds the curve of the first run only
C16_Witness ==
    /\ rop = "plot" /\ ~rout.panic
    /\ Len(rin) = 2
    /\ PairsOfCell(rin, 1, "Get Object", 1, 1) # {}
    /\ PairsOfCell(rin, 2, "Get Object", 1, 1) = {}
    /\ rin[2].Measurements # <<>>
    /\ \E g \in 1..Len(rout.grids) :
          /\ rout.grids[g].section = "Get Object"
          /\ Cardinality(CurvesOfCell(rout.grids[g], 1, 1, 1)) = 1
          /\ CurvesOfCell(rout.grids[g], 2, 1, 1) = {}

\* the Result names of the scenario-less measurements of the runs
ScenarioLessNames(brs) ==
    {n \in Range(NamesOfRunsFrom(brs, 1)) :
        \E b \in 1..Len(brs) : \E i \in 1..Len(brs[b].Measurements) :
            LET m == brs[b].Measurements[i] IN
            /\ m.Parts = 0 /\ m.Segments = 0
            /\ \E j \in 1..Len(m.Results) : m.Results[j].Name = n}

\* C17: every section that comes from scenario-less measurements (parts=0,
\* segments=0) is rendered as a placeholder without grid, and PlotPercentiles
\* completes, with no failing grid lookup for such a measurement, whatever
\* its Result names are; its output has a caption for each of these sections.
C17_ScenarioLessSectionsArePlaceholders ==
    (rop = "plot" /\ ScenarioLessNames(rin) # {}) =>
        /\ ~rout.panic
        /\ \A n \in ScenarioLessNames(rin) :
              \E g \in 1..Len(rout.grids) :
                  rout.grids[g].section = n /\ ~rout.grids[g].gridded

\* the 98th percentiles of the curves of the section named name: one per
\* measurement of any run that has a Result of that name
P98sOfSection(brs, name) ==
    {percentile(SortFloat64s(
                    brs[b].Measurements[i].Results[
                        ScanByName(brs[b].Measurements[i].Results, name, 1)
                    ].Durations),
                <<49, 50>>).v :
        <<b, i>> \in {<<b, i>> \in (1..Len(brs)) \X (1..MaxMeasurements + 1) :
                        /\ i <= Len(brs[b].Measurements)
                        /\ ScanByName(brs[b].Measurements[i].Results,
                                      name, 1) # 0}}

SetMax(S) == CHOOSE x \in S : \A y \in S : y <= x

\* C18 as stated: for every gridded section the shared y-axis upper bound
\* before nice rounding is the maximum of the 98th nearest-rank percentiles
\* of the section's curves.
C18_AxisMaxIsLargestP98 ==
    (rop = "plot" /\ ~rout.panic) =>
        \A g \in 1..Len(rout.grids) :
            rout.grids[g].gridded =>
                rout.grids[g].yMax =
                    SetMax(P98sOfSection(rin, rout.grids[g].section))

\* C18 amended: the bound is the larger of 0.1 ms, the value the axis starts
\* with, and the maximum of the 98th nearest-rank percentiles of the
\* section's curves; one bound per section, from that section's curves only.
C18_AxisMaxIsLargestP98OrTenth ==
    (rop = "plot" /\ ~rout.panic) =>
        \A g \in 1..Len(rout.grids) :
            rout.grids[g].gridded =>
                LET top == SetMax(P98sOfSection(rin, rout.grids[g].section))
                IN rout.grids[g].yMax =
                       (IF top > Millisecond \div 10 THEN top
                        ELSE Millisecond \div 10)

\* a section with two curves, the larger 98th percentile on the first, and
\* another section whose only curve stays under 0.1 ms
C18_Witness ==
    /\ rop = "plot" /\ ~rout.panic
    /\ \E g \in 1..Len(rout.grids) :
          /\ rout.grids[g].gridded
          /\ Len(rout.grids[g].curves) = 2
          /\ rout.grids[g].curves[1].millis =
                 <<10 * Millisecond, 20 * Millisecond, 30 * Millisecond>>
          /\ rout.grids[g].curves[2].millis = <<5 * Millisecond>>
          /\ rout.grids[g].yMax = 30 * Millisecond
    /\ \E g \in 1..Len(rout.grids) :
          /\ rout.grids[g].gridded
          /\ rout.grids[g].curves[1].millis = <<Millisecond \div 20>>
          /\ rout.grids[g].yMax = Millisecond \div 10

RECURSIVE WithScenarioFrom(_, _, _)
\* the measurements of the runs brs[b], brs[b+1], ... other than the
\* scenario-less ones, in collection order, starting at measurement i of b
WithScenarioFrom(brs, b, i) ==
    IF b > Len(brs) THEN <<>>
    ELSE IF i > Len(brs[b].Measurements) THEN WithScenarioFrom(brs, b + 1, 1)
    ELSE LET m == brs[b].Measurements[i]
         IN (IF m.Parts = 0 /\ m.Segments = 0 THEN <<>> ELSE <<m>>)
                \o WithScenarioFrom(brs, b, i + 1)

\* C19: the grid rows are the distinct parts values and the grid columns the
\* distinct segments values of all measurements of all runs other than the
\* scenario-less ones, each once, in first-seen order of a scan in collection
\* order, and every gridded section has rows x columns cells, one per
\* (parts, segments) pair.
C19_GridIsPartsBySegments ==
    (rop = "plot" /\ ~rout.panic) =>
        LET ms == WithScenarioFrom(rin, 1, 1)
            pv == FirstSeen([i \in 1..Len(ms) |-> ms[i].Parts])
            sv == FirstSeen([i \in 1..Len(ms) |-> ms[i].Segments])
        IN /\ rout.partVariants = pv
           /\ rout.segmentVariants = sv
           /\ \A g \in 1..Len(rout.grids) :
                 rout.grids[g].gridded =>
                     /\ Len(rout.grids[g].rows) = Len(pv)
                     /\ \A i \in 1..Len(pv) :
                           /\ Len(rout.grids[g].rows[i]) = Len(sv)
                           /\ \A j \in 1..Len(sv) :
                                 rout.grids[g].rows[i][j] =
                                     [Parts |-> pv[i], Segments |-> sv[j]]

\* parts 2 before 1 and segments 1 before 2, values repeated: a grid of
\* 2 x 2 cells in first-seen order
C19_Witness ==
    /\ rop = "plot" /\ ~rout.panic
    /\ rout.partVariants = <<2, 1>>
    /\ rout.segmentVariants = <<1, 2>>
    /\ Len(WithScenarioFrom(rin, 1, 1)) = 3
    /\ \E g \in 1..Len(rout.grids) :
          /\ rout.grids[g].gridded
          /\ rout.grids[g].rows[2][2] = [Parts |-> 1, Segments |-> 2]

\* C20: Upload uploads the parts of one object in parallel: for a scenario
\* with Parts >= 2 and Segments >= 1 the main routine does not wait for the
\* worker of the first part before it starts the worker of the second, so
\* that the two can be in progress at the same time: while the first worker
\* is in progress and the second has not been started, the main routine is
\* at g.Go for the second part.
C20_PartsUploadedInParallel ==
    (/\ phase = "upload"
     /\ CurScen.Parts >= 2 /\ CurScen.Segments >= 1
     /\ workers[0].pc \notin {"idle", "done", "failed"}
     /\ workers[1].pc = "idle")
        => mpc = "go"

----------------------------------------------------------------------------
(* Claims about the measurements of a run *)

\* the samples a list of Results holds under a name
SamplesUnder(rs, name) ==
    LET at == {i \in 1..Len(rs) : rs[i].Name = name}
    IN IF at = {} THEN 0
       ELSE Len(rs[CHOOSE i \in at : \A j \in at : i <= j].Durations)

\* no two Results of the list have the same name
OneResultPerName(rs) ==
    \A i, j \in 1..Len(rs) : rs[i].Name = rs[j].Name => i = j

UploadNames ==
    {"Begin Object", "Commit Object", "Upload Total", "Begin Remote Segment",
     "Commit Remote Segment", "Commit Inline Segment"}

\* C21: the Measurement Upload returns without error for the scenario (P, S)
\* after k iterations holds k samples each under "Begin Object", "Commit
\* Object" and "Upload Total", k*P*max(S-1, 0) each under "Begin Remote
\* Segment" and "Commit Remote Segment", k*P*min(S, 1) under "Commit Inline
\* Segment", and no Result under another name.
C21_UploadSamplesPerIteration ==
    \A i \in 1..Min(Len(measurements), NumScenarios) :
        LET m == measurements[i]
            k == Len(objects[i])
            P == Scenarios[i].Parts
            S == Scenarios[i].Segments
            remote == k * P * (IF S - 1 > 0 THEN S - 1 ELSE 0)
            inline == k * P * (IF S < 1 THEN S ELSE 1)
        IN /\ m.Parts = P /\ m.Segments = S
           /\ OneResultPerName(m.Results)
           /\ SamplesUnder(m.Results, "Begin Object") = k
           /\ SamplesUnder(m.Results, "Commit Object") = k
           /\ SamplesUnder(m.Results, "Upload Total") = k
           /\ SamplesUnder(m.Results, "Begin Remote Segment") = remote
           /\ SamplesUnder(m.Results, "Commit Remote Segment") = remote
           /\ SamplesUnder(m.Results, "Commit Inline Segment") = inline
           /\ \A j \in 1..Len(m.Results) : m.Results[j].Name \in UploadNames

\* Upload has returned for a scenario of one part and two segments after
\* two iterations, and for a scenario without segments
C21_Witness ==
    \E i \in 1..Min(Len(measurements), NumScenarios) :
        /\ i > 1
        /\ Scenarios[i].Parts = 1 /\ Scenarios[i].Segments = 2
        /\ Scenarios[1].Segments = 0
        /\ Len(objects[i]) = 2
        /\ SamplesUnder(measurements[i].Results, "Upload Total") = 2
        /\ SamplesUnder(measurements[i].Results, "Begin Remote Segment") = 2
        /\ SamplesUnder(measurements[i].Results, "Commit Inline Segment") = 2
        /\ SamplesUnder(measurements[1].Results, "Commit Inline Segment") = 0

\* the names each benchmark records under
PhaseNames(ph) ==
    CASE ph = "upload" -> UploadNames
      [] ph = "iterate" -> {"Iterate Objects"}
      [] ph = "list" -> {"List Segments"}
      [] ph = "download" -> {"Get Object", "Get Segment", "Download Total"}
      [] ph = "delete" -> {"Delete Object"}

\* the i-th benchmark call of a run in the order of the phases: Upload for
\* every scenario, Iterate, then ListSegments, Download and Delete for every
\* scenario
ExpectedCall(i) ==
    IF i <= NumScenarios THEN [phase |-> "upload", si |-> i]
    ELSE IF i = NumScenarios + 1 THEN [phase |-> "iterate", si |-> 1]
    ELSE LET j == i - NumScenarios - 2
         IN [phase |-> <<"list", "download", "delete">>[(j \div NumScenarios) + 1],
             si |-> (j % NumScenarios) + 1]

ExpectedScenario(i) ==
    IF ExpectedCall(i).phase = "iterate" THEN Scenario(0, 0)
    ELSE Scenarios[ExpectedCall(i).si]

\* C22: Run makes its calls strictly in the order Upload for every scenario,
\* Iterate once, ListSegments, Download and Delete for every scenario, each
\* call after the one before it has returned; so Delete starts only after
\* every ListSegments and Download has returned, Iterate runs after every
\* Upload and before every Delete, and a run without error returns exactly
\* 4 * |scenarios| + 1 measurements in that order.
C22_PhasesInOrder ==
    /\ Len(started) <= 4 * NumScenarios + 1
    /\ \A i \in 1..Len(started) : started[i] = ExpectedCall(i)
    /\ Running =>
          /\ started[Len(started)] = [phase |-> phase, si |-> si]
          /\ Len(measurements) = Len(started) - 1
    /\ \A i \in 1..Len(measurements) :
          /\ i <= Len(started)
          /\ measurements[i].Parts = ExpectedScenario(i).Parts
          /\ measurements[i].Segments = ExpectedScenario(i).Segments
          /\ \A j \in 1..Len(measurements[i].Results) :
                measurements[i].Results[j].Name
                    \in PhaseNames(ExpectedCall(i).phase)
    /\ phase = "iterate" => Len(measurements) = NumScenarios
    /\ phase = "delete" => Len(measurements) >= 3 * NumScenarios + 1
    /\ phase = "returned" =>
          /\ failedAt = NoFailure
          /\ Len(measurements) = 4 * NumScenarios + 1

\* a run has returned without error and its last Delete deleted an object
C22_Witness ==
    /\ phase = "returned"
    /\ failedAt = NoFailure
    /\ Len(measurements) = 4 * NumScenarios + 1
    /\ SamplesUnder(measurements[NumScenarios + 1].Results,
                    "Iterate Objects") >= 1
    /\ SamplesUnder(measurements[3 * NumScenarios + 1].Results,
                    "Download Total") >= 1
    /\ SamplesUnder(measurements[4 * NumScenarios + 1].Results,
                    "Delete Object") >= 1

\* the measurement a returned run holds for the call of phase ph, scenario i
MeasurementOf(ph, i) ==
    measurements[CHOOSE n \in 1..(4 * NumScenarios + 1) :
                     ExpectedCall(n) = [phase |-> ph, si |-> i]]

\* C23: in a run that completes without error over pairwise distinct
\* scenarios the later phases handle exactly the objects uploaded for the
\* same scenario: the object ListSegments, Download or Delete is handling was
\* uploaded under the scenario of the call, and in the returned measurements
\* "List Segments", "Get Object", "Download Total" and "Delete Object" have
\* as many samples as "Upload Total" has in the scenario's Upload
\* measurement, and "Get Segment" has that count times P*S.
C23_LaterPhasesHandleOwnObjects ==
    /\ (phase \in {"list", "download", "delete"} /\ mpc # "top") =>
          /\ ki < Len(CurObjects)
          /\ CurObjects[ki + 1].scenario = si
    /\ phase = "returned" =>
          \A i \in 1..NumScenarios :
              LET n == SamplesUnder(MeasurementOf("upload", i).Results,
                                    "Upload Total")
                  down == MeasurementOf("download", i).Results
              IN /\ n = Len(objects[i])
                 /\ SamplesUnder(MeasurementOf("list", i).Results,
                                 "List Segments") = n
                 /\ SamplesUnder(down, "Get Object") = n
                 /\ SamplesUnder(down, "Download Total") = n
                 /\ SamplesUnder(down, "Get Segment") =
                        n * Scenarios[i].Parts * Scenarios[i].Segments
                 /\ SamplesUnder(MeasurementOf("delete", i).Results,
                                 "Delete Object") = n

\* a run has returned in which one object was uploaded under the first
\* scenario and two under the second, which has one part and two segments
C23_Witness ==
    /\ phase = "returned"
    /\ \A i, j \in 1..NumScenarios : Scenarios[i] = Scenarios[j] => i = j
    /\ Scenarios[2] = Scenario(1, 2)
    /\ Len(objects[1]) = 1
    /\ Len(objects[2]) = 2
    /\ SamplesUnder(MeasurementOf("download", 2).Results, "Get Segment") = 4
    /\ SamplesUnder(MeasurementOf("delete", 2).Results, "Delete Object") = 2
    /\ SamplesUnder(MeasurementOf("delete", 1).Results, "Delete Object") = 1

\* the main routine is in the paging loop of ListSegments
InPagingLoop ==
    /\ phase = "list"
    /\ mpc \in {"listSegments", "listedMore", "listSegmentsMore"}

\* C24: ListSegments terminates for every object, also when the backend
\* answers a list-segments request with More set: whenever a request of
\* the paging loop has been answered with More, the loop is left later on,
\* by an answer with More unset after which the one "List Segments" sample
\* of the object is recorded, or at least by an error.
C24_PagingLoopTerminates ==
    (phase = "list" /\ mpc = "listedMore") ~> ~InPagingLoop

\* C25: in PlotPercentiles, whatever the runs and measurements, every
\* measurement whose scenario is not (0,0) has its parts among the grid rows
\* and its segments among the grid columns, so every gridded section has a
\* cell for it, also when the runs cover different scenarios; the cell
\* lookup fails for no such measurement (only for a scenario-less one), and
\* each of its Results has its curve in that cell.
C25_EveryScenarioHasACell ==
    rop = "plot" =>
        /\ rout.panic => ScenarioLessWithGriddedName(rin)
        /\ \A b \in 1..Len(rin) : \A i \in 1..Len(rin[b].Measurements) :
              LET m == rin[b].Measurements[i] IN
              ~(m.Parts = 0 /\ m.Segments = 0) =>
                  /\ m.Parts \in Range(rout.partVariants)
                  /\ m.Segments \in Range(rout.segmentVariants)
                  /\ \A g \in 1..Len(rout.grids) :
                        LET grid == rout.grids[g] IN
                        grid.gridded =>
                            /\ \E r \in 1..Len(grid.rows) :
                                  \E c \in 1..Len(grid.rows[r]) :
                                      grid.rows[r][c] =
                                          [Parts |-> m.Parts,
                                           Segments |-> m.Segments]
                            /\ (~rout.panic
                                  /\ \E j \in 1..Len(m.Results) :
                                        m.Results[j].Name = grid.section)
                                  => CurvesOfCell(grid, b, m.Parts,
                                                  m.Segments) # {}

\* two runs that cover different scenarios, (2,1) and (1,0) against (1,2):
\* the grid has a row for each parts value and a column for each segments
\* value of either run
C25_Witness ==
    /\ rop = "plot" /\ ~rout.panic
    /\ Len(rin) = 2
    /\ {[Parts |-> rin[1].Measurements[i].Parts,
         Segments |-> rin[1].Measurements[i].Segments] :
            i \in 1..Len(rin[1].Measurements)}
           = {Scenario(2, 1), Scenario(1, 0)}
    /\ {[Parts |-> rin[2].Measurements[i].Parts,
         Segments |-> rin[2].Measurements[i].Segments] :
            i \in 1..Len(rin[2].Measurements)}
           = {Scenario(1, 2)}
    /\ Range(rout.partVariants) = {1, 2}
    /\ Range(rout.segmentVariants) = {0, 1, 2}
    /\ \E g \in 1..Len(rout.grids) :
          /\ rout.grids[g].section = "Get Object"
          /\ CurvesOfCell(rout.grids[g], 2, 1, 2) # {}
          /\ CurvesOfCell(rout.grids[g], 1, 2, 1) = {}

\* every Result of the list has a duration
NoEmptyResult(rs) == \A j \in 1..Len(rs) : rs[j].Durations # <<>>

\* C26: every Result of a Measurement the driver returns, with or without
\* error, has at least one duration: a Result is created only inside Record,
\* which appends a duration to it before anything is returned, so a
\* Measurement of zero objects has no Results at all, not empty ones.
C26_NoResultWithoutDuration ==
    /\ \A i \in 1..Len(measurements) :
          /\ NoEmptyResult(measurements[i].Results)
          /\ (ExpectedCall(i).phase # "iterate"
                /\ objects[ExpectedCall(i).si] = <<>>)
                => measurements[i].Results = <<>>
    /\ phase = "failed" => NoEmptyResult(cur)
    /\ (Running /\ ~NoEmptyResult(cur)) => InRecord # {}

\* an Upload stopped before its first iteration has returned a Measurement
\* without Results, and a later Upload has returned an error from a part
\* worker after it had recorded samples
C26_Witness ==
    /\ phase = "failed"
    /\ failedAt.phase = "upload"
    /\ \E w \in WorkerIds : workers[w].pc = "failed"
    /\ cur # <<>>
    /\ \E j \in 1..Len(cur) : cur[j].Name = "Begin Remote Segment"
    /\ Len(measurements) >= 1
    /\ measurements[1].Results = <<>>

====
